---------------------------- MODULE Spec2Model ----------------------------
(***************************************************************************)
(* crypto_scheme.py: a seed-derived bit cipher.  GEN expands a seed into a *)
(* key of 4 * len(seed) bits with SHA-256, ENC runs 6 rounds of keyed XOR  *)
(* and position permutation, DEC runs the rounds backwards.  The module    *)
(* models the three functions round by round, together with the two test   *)
(* drivers that call them (test_basic_functionality: GEN, ENC, DEC and     *)
(* compare; test_diffusion: ENC, then ENC again with each bit flipped).    *)
(*                                                                         *)
(* Python lists are objects: `heap` holds the contents of every list and   *)
(* the variables hold references, so that copying a list and aliasing it   *)
(* are different things.  Lists are sequences; Python's index i is i + 1.  *)
(***************************************************************************)
EXTENDS Integers, Sequences, FiniteSets

(***************************************************************************)
(* hashlib.sha256: SHA-256 (FIPS 180-4) over a sequence of bytes.  A       *)
(* 32-bit word is the pair <<hi, lo>> of its 16-bit halves.                *)
(***************************************************************************)
RECURSIVE Pow2(_)
Pow2(k) == IF k = 0 THEN 1 ELSE 2 * Pow2(k - 1)

RECURSIVE BitXor(_, _)
BitXor(a, b) ==
  IF a = 0 THEN b
  ELSE IF b = 0 THEN a
  ELSE 2 * BitXor(a \div 2, b \div 2) + ((a + b) % 2)

RECURSIVE BitAnd(_, _)
BitAnd(a, b) ==
  IF a = 0 \/ b = 0 THEN 0
  ELSE 2 * BitAnd(a \div 2, b \div 2) + ((a % 2) * (b % 2))

WXor(x, y) == << BitXor(x[1], y[1]), BitXor(x[2], y[2]) >>

WAnd(x, y) == << BitAnd(x[1], y[1]), BitAnd(x[2], y[2]) >>

WNot(x) == << 65535 - x[1], 65535 - x[2] >>

WAdd(x, y) ==
  LET lo == x[2] + y[2]
  IN  << (x[1] + y[1] + (lo \div 65536)) % 65536, lo % 65536 >>

RECURSIVE RotR(_, _)
RotR(x, k) ==
  IF k >= 16 THEN RotR(<< x[2], x[1] >>, k - 16)
  ELSE IF k = 0 THEN x
  ELSE LET p == Pow2(k)
           q == Pow2(16 - k)
       IN  << (x[1] \div p) + (x[2] % p) * q, (x[2] \div p) + (x[1] % p) * q >>

ShR(x, k) ==
  IF k >= 16 THEN << 0, x[1] \div Pow2(k - 16) >>
  ELSE LET p == Pow2(k)
           q == Pow2(16 - k)
       IN  << x[1] \div p, (x[2] \div p) + (x[1] % p) * q >>

Ch(x, y, z) == WXor(WAnd(x, y), WAnd(WNot(x), z))

Maj(x, y, z) == WXor(WXor(WAnd(x, y), WAnd(x, z)), WAnd(y, z))

BigSigma0(x) == WXor(WXor(RotR(x, 2), RotR(x, 13)), RotR(x, 22))

BigSigma1(x) == WXor(WXor(RotR(x, 6), RotR(x, 11)), RotR(x, 25))

SmallSigma0(x) == WXor(WXor(RotR(x, 7), RotR(x, 18)), ShR(x, 3))

SmallSigma1(x) == WXor(WXor(RotR(x, 17), RotR(x, 19)), ShR(x, 10))

SHA_K ==
  <<
    <<17034, 12184>>, <<28983, 17553>>, <<46528, 64463>>, <<59829, 56229>>,
    <<14678, 49755>>, <<23025, 4593>>, <<37439, 33444>>, <<43804, 24277>>,
    <<55303, 43672>>, <<4739, 23297>>, <<9265, 34238>>, <<21772, 32195>>,
    <<29374, 23924>>, <<32990, 45566>>, <<39900, 1703>>, <<49563, 61812>>,
    <<58523, 27073>>, <<61374, 18310>>, <<4033, 40390>>, <<9228, 41420>>,
    <<11753, 11375>>, <<19060, 33962>>, <<23728, 43484>>, <<30457, 35034>>,
    <<38974, 20818>>, <<43057, 50797>>, <<45059, 10184>>, <<48985, 32711>>,
    <<50912, 3059>>, <<54695, 37191>>, <<1738, 25425>>, <<5161, 10599>>,
    <<10167, 2693>>, <<11803, 8504>>, <<19756, 28156>>, <<21304, 3347>>,
    <<25866, 29524>>, <<30314, 2747>>, <<33218, 51502>>, <<37490, 11397>>,
    <<41663, 59553>>, <<43034, 26187>>, <<49739, 35696>>, <<51052, 20899>>,
    <<53650, 59417>>, <<54937, 1572>>, <<62478, 13701>>, <<4202, 41072>>,
    <<6564, 49430>>, <<7735, 27656>>, <<10056, 30540>>, <<13488, 48309>>,
    <<14620, 3251>>, <<20184, 43594>>, <<23452, 51791>>, <<26670, 28659>>,
    <<29839, 33518>>, <<30885, 25455>>, <<33992, 30740>>, <<36039, 520>>,
    <<37054, 65530>>, <<42064, 27883>>, <<48889, 41975>>, <<50801, 30962>> >>

SHA_H0 ==
  <<
    <<27145, 58983>>, <<47975, 44677>>, <<15470, 62322>>, <<42319, 62778>>,
    <<20750, 21119>>, <<39685, 26764>>, <<8067, 55723>>, <<23520, 52505>> >>

RECURSIVE Zeros(_)
Zeros(k) == IF k = 0 THEN << >> ELSE << 0 >> \o Zeros(k - 1)

\* The padded message: the byte 0x80, zero bytes up to 56 mod 64, then the
\* message's length in bits as a 64-bit big-endian number.
ShaPad(bytes) ==
  LET len  == Len(bytes)
      zpad == (119 - (len % 64)) % 64
      bits == 8 * len
  IN  bytes \o << 128 >> \o Zeros(zpad) \o << 0, 0, 0, 0 >>
        \o << (bits \div 16777216) % 256, (bits \div 65536) % 256,
              (bits \div 256) % 256, bits % 256 >>

\* The 16 big-endian words of the 64-byte block that starts after byte `off`.
BlockWords(p, off) ==
  [ t \in 1..16 |->
      << p[off + 4 * t - 3] * 256 + p[off + 4 * t - 2],
         p[off + 4 * t - 1] * 256 + p[off + 4 * t] >> ]

RECURSIVE Schedule(_)
Schedule(w) ==
  IF Len(w) = 64 THEN w
  ELSE LET t == Len(w) + 1
       IN  Schedule(Append(w,
             WAdd(WAdd(SmallSigma1(w[t - 2]), w[t - 7]),
                  WAdd(SmallSigma0(w[t - 15]), w[t - 16]))))

\* One round of the compression function on the working variables a..h.
ShaRound(v, k, w) ==
  LET t1 == WAdd(WAdd(WAdd(v[8], BigSigma1(v[5])), WAdd(Ch(v[5], v[6], v[7]), k)), w)
      t2 == WAdd(BigSigma0(v[1]), Maj(v[1], v[2], v[3]))
  IN  << WAdd(t1, t2), v[1], v[2], v[3], WAdd(v[4], t1), v[5], v[6], v[7] >>

\* The working variables after each of the 64 rounds, the initial ones first.
RECURSIVE ShaRounds(_, _)
ShaRounds(vs, w) ==
  IF Len(vs) = 65 THEN vs
  ELSE LET t == Len(vs)
       IN  ShaRounds(Append(vs, ShaRound(vs[t], SHA_K[t], w[t])), w)

Compress(h, words) ==
  LET w == Schedule(words)
      v == ShaRounds(<< h >>, w)[65]
  IN  << WAdd(h[1], v[1]), WAdd(h[2], v[2]), WAdd(h[3], v[3]), WAdd(h[4], v[4]),
         WAdd(h[5], v[5]), WAdd(h[6], v[6]), WAdd(h[7], v[7]), WAdd(h[8], v[8]) >>

RECURSIVE ShaBlocks(_, _, _)
ShaBlocks(h, p, off) ==
  IF off >= Len(p) \/ Len(h) = 0 THEN h
  ELSE ShaBlocks(Compress(h, BlockWords(p, off)), p, off + 64)

RECURSIVE WordBytes(_, _)
WordBytes(h, i) ==
  IF i > Len(h) THEN << >>
  ELSE << h[i][1] \div 256, h[i][1] % 256, h[i][2] \div 256, h[i][2] % 256 >>
         \o WordBytes(h, i + 1)

\* hashlib.sha256(bytes).digest(): the 32 bytes of the digest.
sha256(bytes) == WordBytes(ShaBlocks(SHA_H0, ShaPad(bytes), 0), 1)

(***************************************************************************)
(* Strings.  A str is a sequence of code points; encode() is UTF-8.        *)
(***************************************************************************)
\* What a call gives: the exception it raises, or the value it returns.
Raised(e) == [ err |-> e, val |-> << >> ]

Returned(v) == [ err |-> "", val |-> v ]

\* chr(c).encode(): one to four bytes; a surrogate (U+D800..U+DFFF) has no
\* UTF-8 form and encode() raises UnicodeEncodeError.
Utf8Char(c) ==
  IF c < 128 THEN Returned(<< c >>)
  ELSE IF c < 2048 THEN Returned(<< 192 + (c \div 64), 128 + (c % 64) >>)
  ELSE IF c >= 55296 /\ c <= 57343 THEN Raised("UnicodeEncodeError")
  ELSE IF c < 65536
    THEN Returned(<< 224 + (c \div 4096), 128 + ((c \div 64) % 64), 128 + (c % 64) >>)
  ELSE Returned(<< 240 + (c \div 262144), 128 + ((c \div 4096) % 64),
                   128 + ((c \div 64) % 64), 128 + (c % 64) >>)

\* s[lo:hi].encode(): the bytes of the characters in their order, or the
\* error of the first character that has none.
RECURSIVE EncodeRange(_, _, _)
EncodeRange(s, lo, hi) ==
  IF hi <= lo THEN Returned(<< >>)
  ELSE IF hi = lo + 1 THEN Utf8Char(s[hi])
  ELSE LET mid == (lo + hi) \div 2
           left == EncodeRange(s, lo, mid)
       IN  IF left.err # "" THEN left
           ELSE LET right == EncodeRange(s, mid, hi)
                IN  IF right.err # "" THEN right
                    ELSE Returned(left.val \o right.val)

\* s.encode()
Encode(s) == EncodeRange(s, 0, Len(s))

\* str(counter): the decimal digits of a non-negative integer, as code points.
RECURSIVE Str(_)
Str(k) == IF k < 10 THEN << 48 + k >> ELSE Str(k \div 10) \o << 48 + (k % 10) >>

(***************************************************************************)
(* GEN                                                                     *)
(***************************************************************************)
\* (byte >> (7 - i)) & 1
KeyBit(byte, i) == (byte \div Pow2(7 - i)) % 2

\* for i in range(8): if len(key_bits) < key_len: key_bits.append(...)
RECURSIVE BitLoop(_, _, _, _)
BitLoop(key_bits, byte, i, key_len) ==
  IF i = 8 THEN key_bits
  ELSE BitLoop(IF Len(key_bits) < key_len
                 THEN Append(key_bits, KeyBit(byte, i))
                 ELSE key_bits,
               byte, i + 1, key_len)

\* for byte in hash_bytes: ...
RECURSIVE ByteLoop(_, _, _, _)
ByteLoop(key_bits, hash_bytes, b, key_len) ==
  IF b > Len(hash_bytes) \/ Len(key_bits) >= key_len THEN key_bits
  ELSE ByteLoop(BitLoop(key_bits, hash_bytes[b], 0, key_len), hash_bytes, b + 1, key_len)

\* The digest the loop's iteration number `counter` reads: the one computed
\* before the loop for counter 0, sha256((seed + str(counter)).encode()) after.
BlockDigest(seed_str, counter, hash_bytes) ==
  IF counter > 0
    THEN LET e == Encode(seed_str \o Str(counter))
         IN  IF e.err # "" THEN Raised(e.err) ELSE Returned(sha256(e.val))
    ELSE Returned(hash_bytes)

\* One iteration of the while loop, on the locals.
GenIteration(g, seed_str) ==
  LET hb == BlockDigest(seed_str, g.counter, g.hash_bytes)
  IN  IF hb.err # "" THEN Raised(hb.err)
      ELSE Returned([ g EXCEPT !.hash_bytes = hb.val,
                               !.key_bits = ByteLoop(g.key_bits, hb.val, 1, g.key_len),
                               !.counter = g.counter + 1 ])

\* Lines 22-29: the locals at the first test of the loop's condition, or the
\* UnicodeEncodeError of seed.encode().
GenLocals(seed_str) ==
  LET e == Encode(seed_str)
  IN  IF e.err # "" THEN Raised(e.err)
      ELSE Returned([ key_len |-> 4 * Len(seed_str),
                      hash_bytes |-> sha256(e.val),
                      key_bits |-> << >>,
                      counter |-> 0 ])

\* The while loop from the locals g on: the locals at its exit.
RECURSIVE GenLoop(_, _)
GenLoop(g, seed_str) ==
  IF Len(g.key_bits) < g.key_len
    THEN LET it == GenIteration(g, seed_str)
         IN  IF it.err # "" THEN Raised(it.err) ELSE GenLoop(it.val, seed_str)
    ELSE Returned(g)

\* key_bits[:key_len]
Prefix(s, k) == SubSeq(s, 1, IF k < Len(s) THEN k ELSE Len(s))

\* The whole call: the key it returns, or the exception it raises.
GEN(seed_str) ==
  LET g0 == GenLocals(seed_str)
  IN  IF g0.err # "" THEN Raised(g0.err)
      ELSE LET g == GenLoop(g0.val, seed_str)
           IN  IF g.err # "" THEN Raised(g.err)
               ELSE Returned(Prefix(g.val.key_bits, g.val.key_len))

(***************************************************************************)
(* ENC and DEC, one round at a time                                        *)
(***************************************************************************)
rounds == 6

\* a ^ b on bits
Xor(a, b) == (a + b) % 2

\* shift = (r * 11) % n; for i in range(n): C[i] ^= K[(i + shift) % n]
XorKey(K, C, r) ==
  LET n == Len(C)
      shift == (r * 11) % n
  IN  [ i \in 1..n |-> Xor(C[i], K[((i - 1 + shift) % n) + 1]) ]

\* mult = 3 if n % 3 != 0 else 7: another multiplier for the multiples of 3.
MultSeven(n) == IF n % 3 # 0 THEN 3 ELSE 7

\* mult = 3: the multiples of 3 forgotten.
MultThree(n) == 3

\* mult = 3 if n % 3 != 0 else 5
Mult(n) == IF n % 3 # 0 THEN 3 ELSE 5

\* new_pos = (i * mult + r * 7) % n
NewPos(i, r, n) == (i * Mult(n) + r * 7) % n

\* for i in range(lo, hi): C[new_pos] = C_temp[i].  The writes happen in the
\* loop's order (the first half of the range, then the second), so of two
\* positions with one new_pos the later one stays.
RECURSIVE Scatter(_, _, _, _, _, _)
Scatter(C, C_temp, r, n, lo, hi) ==
  IF hi <= lo \/ Len(C) = 0 THEN C
  ELSE IF hi = lo + 1 THEN [ C EXCEPT ![NewPos(lo, r, n) + 1] = C_temp[lo + 1] ]
  ELSE LET mid == (lo + hi) \div 2
       IN  Scatter(Scatter(C, C_temp, r, n, lo, mid), C_temp, r, n, mid, hi)

\* C_temp = C.copy(); for i in range(n): C[new_pos] = C_temp[i]
Permute(C, r) == Scatter(C, C, r, Len(C), 0, Len(C))

\* M_temp = M.copy(); for i in range(n): M[i] = M_temp[new_pos]
Unpermute(M_temp, r) ==
  [ i \in 1..Len(M_temp) |-> M_temp[NewPos(i - 1, r, Len(M_temp)) + 1] ]

\* The body of ENC's loop for round r.
EncRound(K, C, r) == Permute(XorKey(K, C, r), r)

\* DEC's round with its two steps in ENC's order: the XOR, then the gather.
DecRoundXorFirst(K, M, r) == Unpermute(XorKey(K, M, r), r)

\* The body of DEC's loop for round r.
DecRound(K, M, r) == XorKey(K, Unpermute(M, r), r)

\* len(K) < len(M): a key longer than the data passes.
LengthMismatchShortKey(K, M) == Len(K) < Len(M)

\* len(K) != len(M)
LengthMismatch(K, M) == Len(K) # Len(M)

\* for r in range(rounds), from round r on
RECURSIVE EncLoop(_, _, _)
EncLoop(K, C, r) ==
  IF r >= rounds THEN Returned(C)
  ELSE IF Len(C) = 0 THEN Raised("ZeroDivisionError")
  ELSE EncLoop(K, EncRound(K, C, r), r + 1)

\* for r in range(rounds - 1, -1, -1), from round r on
RECURSIVE DecLoop(_, _, _)
DecLoop(K, M, r) ==
  IF r < 0 THEN Returned(M)
  ELSE IF Len(M) = 0 THEN Raised("ZeroDivisionError")
  ELSE DecLoop(K, DecRound(K, M, r), r - 1)

\* The whole call: what it returns, or the exception it raises.
ENC(K, M) == IF LengthMismatch(K, M) THEN Raised("ValueError") ELSE EncLoop(K, M, 0)

DEC(K, C) == IF LengthMismatch(K, C) THEN Raised("ValueError") ELSE DecLoop(K, C, rounds - 1)

(***************************************************************************)
(* test_diffusion's measurements                                           *)
(***************************************************************************)
\* M_modified = M_original.copy(); M_modified[bit_pos] ^= 1
FlipBit(M, bit_pos) == [ M EXCEPT ![bit_pos + 1] = Xor(@, 1) ]

\* sum(c1 != c2 for c1, c2 in zip(C_original, C_modified))
BitsChanged(C_original, C_modified) ==
  Cardinality({ i \in 1..Len(C_original) : C_original[i] # C_modified[i] })

\* sum(s[lo:hi])
RECURSIVE SumRange(_, _, _)
SumRange(s, lo, hi) ==
  IF hi <= lo THEN 0
  ELSE IF hi = lo + 1 THEN s[hi]
  ELSE SumRange(s, lo, (lo + hi) \div 2) + SumRange(s, (lo + hi) \div 2, hi)

\* sum(diffusion_results)
Sum(s) == SumRange(s, 0, Len(s))

\* The branch of the report that percentage = avg / n * 100 selects, with
\* avg = sum(diffusion_results) / len(diffusion_results) and n results.
Verdict(results, n) ==
  LET total == Sum(results)
  IN  IF 100 * total >= 45 * n * n THEN "EXCELENTE"
      ELSE IF 100 * total >= 35 * n * n THEN "BOA"
      ELSE IF 100 * total >= 25 * n * n THEN "aceitavel"
      ELSE "baixa"

(***************************************************************************)
(* The inputs the model draws                                              *)
(***************************************************************************)
\* Keys and messages of up to FullLen bits: every bit sequence.
FullLen == 3

\* Keys and messages of up to MaxLen bits: the patterns of BitPatterns.
MaxLen == 16

\* Seeds of up to FullSeedLen characters: every string over SeedChars.
FullSeedLen == 2

\* Seeds of up to MaxSeedLen characters: "a" repeated.
MaxSeedLen == 16

\* "a" and characters that UTF-8 encodes in two, three and four bytes, and a
\* lone surrogate, which it does not encode.
SeedChars == { 97, 233, 8364, 128512, 55296 }

Rep(c, k) == [ j \in 1..k |-> c ]

Unit(n, i) == [ j \in 1..n |-> IF j = i + 1 THEN 1 ELSE 0 ]

Alternating(n) == [ j \in 1..n |-> j % 2 ]

BitPatterns(n) == { Rep(0, n), Alternating(n), Unit(n, 0), Unit(n, n - 1) }

Bits(n) ==
  IF n <= FullLen THEN [ 1..n -> { 0, 1 } ]
  ELSE IF n <= MaxLen THEN BitPatterns(n)
  ELSE { Alternating(n) }

\* Seed lengths whose key needs more than one SHA-256 digest (256 bits): the
\* length that fills one digest exactly, and the one after it.
LongSeedLens == { 256 \div 4, 256 \div 4 + 1 }

Seeds ==
  UNION { [ 1..k -> SeedChars ] : k \in 0..FullSeedLen }
    \cup { Rep(97, k) : k \in (0..MaxSeedLen) \cup LongSeedLens }

CallerKeys == UNION { Bits(n) : n \in 0..MaxLen }

\* Messages offered with a key of n bits: of the key's length when that is
\* at most 4 * MaxSeedLen, and one of every length up to MaxLen.
Messages(n) ==
  (IF n <= 4 * MaxSeedLen THEN Bits(n) ELSE { })
    \cup { Alternating(b) : b \in 0..MaxLen }

(***************************************************************************)
(* State                                                                   *)
(***************************************************************************)
VARIABLES
  pc,                 \* where the driver is
  heap,               \* heap[ref]: the contents of list object ref
  source,             \* "GEN" or "caller": where the key came from
  seed,               \* the seed given to GEN
  gen,                \* GEN's locals: key_len, hash_bytes, key_bits, counter
  key,                \* K: reference to the key (0: none yet)
  msg,                \* M: reference to the message
  out1,               \* reference to what the first cipher call returned
  out2,               \* reference to what the inverse call returned
  call,               \* the cipher call in progress or last made
  err,                \* the exception that ended the run ("": none)
  diffusion_results,  \* test_diffusion: bits changed per flipped position
  verdict             \* test_diffusion: the branch of the report taken

vars ==
  << pc, heap, source, seed, gen, key, msg, out1, out2, call, err,
     diffusion_results, verdict >>

NoGen == [ key_len |-> 0, hash_bytes |-> << >>, key_bits |-> << >>, counter |-> 0 ]

NoCall == [ fn |-> "", key |-> 0, data |-> 0, buf |-> 0, r |-> 0, ret |-> "" ]

Init ==
  /\ pc = "start"
  /\ heap = << >>
  /\ source = ""
  /\ seed = << >>
  /\ gen = NoGen
  /\ key = 0
  /\ msg = 0
  /\ out1 = 0
  /\ out2 = 0
  /\ call = NoCall
  /\ err = ""
  /\ diffusion_results = << >>
  /\ verdict = ""

\* A new list object holding v.
NewList(h, v) == [ heap |-> Append(h, v), ref |-> Len(h) + 1 ]

\* C = M instead of C = M.copy(): the same object under a second name.
ListAlias(h, ref) == [ heap |-> h, ref |-> ref ]

\* list.copy(): a new object with the contents of ref.
ListCopy(h, ref) == NewList(h, h[ref])

(***************************************************************************)
(* GEN, step by step                                                       *)
(***************************************************************************)
\* K = GEN(seed): lines 22-29, up to the loop
CallGEN(s) ==
  /\ pc = "start"
  /\ source' = "GEN"
  /\ seed' = s
  /\ LET g == GenLocals(s)
     IN  IF g.err # ""
           THEN pc' = "raised" /\ err' = g.err /\ gen' = gen
           ELSE pc' = "GEN_loop" /\ err' = err /\ gen' = g.val
  /\ UNCHANGED << heap, key, msg, out1, out2, call, diffusion_results, verdict >>

\* One iteration of `while len(key_bits) < key_len`
GenBlock ==
  /\ pc = "GEN_loop"
  /\ Len(gen.key_bits) < gen.key_len
  /\ LET it == GenIteration(gen, seed)
     IN  IF it.err # ""
           THEN pc' = "raised" /\ err' = it.err /\ gen' = gen
           ELSE pc' = pc /\ err' = err /\ gen' = it.val
  /\ UNCHANGED << heap, source, seed, key, msg, out1, out2, call, diffusion_results, verdict >>

\* return key_bits[:key_len]
GenReturn ==
  /\ pc = "GEN_loop"
  /\ ~(Len(gen.key_bits) < gen.key_len)
  /\ LET a == NewList(heap, Prefix(gen.key_bits, gen.key_len))
     IN  heap' = a.heap /\ key' = a.ref
  /\ pc' = "have_key"
  /\ UNCHANGED << source, seed, gen, msg, out1, out2, call, err, diffusion_results, verdict >>

\* A key the caller supplies instead of one GEN made.
SupplyKey(k) ==
  /\ pc = "start"
  /\ LET a == NewList(heap, k)
     IN  heap' = a.heap /\ key' = a.ref
  /\ source' = "caller"
  /\ pc' = "have_key"
  /\ UNCHANGED << seed, gen, msg, out1, out2, call, err, diffusion_results, verdict >>

\* M = [random.randint(0, 1) for _ in range(len(K))], or a message of
\* another length
ChooseMessage ==
  /\ pc = "have_key"
  /\ \E m \in Messages(Len(heap[key])) :
       LET a == NewList(heap, m)
       IN  heap' = a.heap /\ msg' = a.ref
  /\ pc' = "have_msg"
  /\ UNCHANGED << source, seed, gen, key, out1, out2, call, err, diffusion_results, verdict >>

(***************************************************************************)
(* ENC and DEC, step by step                                               *)
(***************************************************************************)
\* The start of ENC(K, M) or DEC(K, C): the length check, then the working
\* copy and the loop variable's first value.
Call(fn, kref, dref, ret) ==
  IF LengthMismatch(heap[kref], heap[dref])
    THEN /\ pc' = "raised"
         /\ err' = "ValueError"
         /\ call' = [ fn |-> fn, key |-> kref, data |-> dref, buf |-> 0, r |-> 0, ret |-> ret ]
         /\ heap' = heap
    ELSE LET c == ListCopy(heap, dref)
         IN  /\ heap' = c.heap
             /\ call' = [ fn |-> fn, key |-> kref, data |-> dref, buf |-> c.ref,
                          r |-> IF fn = "ENC" THEN 0 ELSE rounds - 1, ret |-> ret ]
             /\ pc' = IF fn = "ENC" THEN "ENC_rounds" ELSE "DEC_rounds"
             /\ err' = err

\* C = ENC(K, M)
FirstENC ==
  /\ pc = "have_msg"
  /\ Call("ENC", key, msg, "out1")
  /\ UNCHANGED << source, seed, gen, key, msg, out1, out2, diffusion_results, verdict >>

\* DEC(K, M) as the first call
FirstDEC ==
  /\ pc = "have_msg"
  /\ Call("DEC", key, msg, "out1")
  /\ UNCHANGED << source, seed, gen, key, msg, out1, out2, diffusion_results, verdict >>

\* M_dec = DEC(K, C)
SecondDEC ==
  /\ pc = "first_done"
  /\ call.fn = "ENC"
  /\ Call("DEC", key, out1, "out2")
  /\ UNCHANGED << source, seed, gen, key, msg, out1, out2, diffusion_results, verdict >>

\* ENC(K, DEC(K, M))
SecondENC ==
  /\ pc = "first_done"
  /\ call.fn = "DEC"
  /\ Call("ENC", key, out1, "out2")
  /\ UNCHANGED << source, seed, gen, key, msg, out1, out2, diffusion_results, verdict >>

\* One round of the loop of fn on the working copy; (r * 11) % n raises
\* ZeroDivisionError when n = 0.
Step(fn, next_r) ==
  /\ call.fn = fn
  /\ IF Len(heap[call.buf]) = 0
       THEN /\ pc' = "raised"
            /\ err' = "ZeroDivisionError"
            /\ UNCHANGED << heap, call >>
       ELSE /\ heap' = [ heap EXCEPT ![call.buf] =
                           IF fn = "ENC"
                             THEN EncRound(heap[call.key], heap[call.buf], call.r)
                             ELSE DecRound(heap[call.key], heap[call.buf], call.r) ]
            /\ call' = [ call EXCEPT !.r = next_r ]
            /\ UNCHANGED << pc, err >>
  /\ UNCHANGED << source, seed, gen, key, msg, out1, out2, diffusion_results, verdict >>

\* for r in range(rounds): one iteration
EncStep ==
  /\ pc = "ENC_rounds"
  /\ call.r < rounds
  /\ Step("ENC", call.r + 1)

\* for r in range(rounds - 1, -1, -1): one iteration
DecStep ==
  /\ pc = "DEC_rounds"
  /\ call.r >= 0
  /\ Step("DEC", call.r - 1)

\* return C / return M: the caller gets the working copy.
Return ==
  /\ IF call.ret = "out1"
       THEN out1' = call.buf /\ out2' = out2 /\ pc' = "first_done"
       ELSE out2' = call.buf /\ out1' = out1 /\ pc' = "done"
  /\ UNCHANGED << heap, source, seed, gen, key, msg, call, err, diffusion_results, verdict >>

EncReturn ==
  /\ pc = "ENC_rounds"
  /\ ~(call.r < rounds)
  /\ Return

DecReturn ==
  /\ pc = "DEC_rounds"
  /\ ~(call.r >= 0)
  /\ Return

(***************************************************************************)
(* test_diffusion's loop over bit_pos, after C_original = ENC(K, M_original)*)
(***************************************************************************)
DiffusionStep ==
  /\ pc \in { "first_done", "diffusion" }
  /\ call.fn = "ENC"
  /\ Len(diffusion_results) < Len(heap[key])
  /\ LET bit_pos == Len(diffusion_results)
         M_modified == FlipBit(heap[msg], bit_pos)
         C_modified == ENC(heap[key], M_modified).val
     IN  diffusion_results' =
           Append(diffusion_results, BitsChanged(heap[out1], C_modified))
  /\ pc' = "diffusion"
  /\ UNCHANGED << heap, source, seed, gen, key, msg, out1, out2, call, err, verdict >>

\* avg, percentage and the report
DiffusionReport ==
  /\ pc = "diffusion"
  /\ ~(Len(diffusion_results) < Len(heap[key]))
  /\ verdict' = Verdict(diffusion_results, Len(heap[key]))
  /\ pc' = "reported"
  /\ UNCHANGED << heap, source, seed, gen, key, msg, out1, out2, call, err, diffusion_results >>

Next ==
  \/ \E s \in Seeds : CallGEN(s)
  \/ GenBlock
  \/ GenReturn
  \/ \E k \in CallerKeys : SupplyKey(k)
  \/ ChooseMessage
  \/ FirstENC
  \/ FirstDEC
  \/ EncStep
  \/ EncReturn
  \/ DecStep
  \/ DecReturn
  \/ SecondDEC
  \/ SecondENC
  \/ DiffusionStep
  \/ DiffusionReport

Spec == Init /\ [][Next]_vars

(***************************************************************************)
(* What the steps compute is what the whole calls compute.                 *)
(***************************************************************************)
StepsAgreeWithCalls ==
  /\ (pc = "have_key" /\ source = "GEN") => GEN(seed) = Returned(heap[key])
  /\ pc = "first_done" =>
        heap[out1] = (IF call.fn = "ENC" THEN ENC(heap[key], heap[msg])
                                        ELSE DEC(heap[key], heap[msg])).val
  /\ pc = "done" =>
        heap[out2] = (IF call.fn = "ENC" THEN ENC(heap[key], heap[out1])
                                        ELSE DEC(heap[key], heap[out1])).val
  /\ (pc = "raised" /\ call.ret = "out1") =>
        err = (IF call.fn = "ENC" THEN ENC(heap[key], heap[msg])
                                  ELSE DEC(heap[key], heap[msg])).err

(***************************************************************************)
(* Properties                                                              *)
(***************************************************************************)
\* The block length of the cipher call in progress or last made.
BlockLen == Len(heap[call.data])

\* The call in progress or last made got a key and data of one length.
EqualLengths == call.fn # "" /\ Len(heap[call.key]) = Len(heap[call.data])

\* The positions the mapping of round r reaches in a block of n positions.
Reached(n, r) == { NewPos(i, r, n) : i \in 0..(n - 1) }

Bijective(n, r) == Reached(n, r) = 0..(n - 1)

RECURSIVE GCD(_, _)
GCD(a, b) == IF b = 0 THEN a ELSE GCD(b, a % b)

\* C1: for every key and message of one length n >= 0, the key made by GEN
\* included, DEC(K, ENC(K, M)) returns M: the call that comes first, ENC,
\* raises nothing, and the message DEC returns is the one ENC was given.
C1_RoundTrip ==
  /\ (pc = "raised" /\ call.ret = "out1" /\ call.fn = "ENC") => ~EqualLengths
  /\ (pc = "raised" /\ call.ret = "out2" /\ call.fn = "DEC") => FALSE
  /\ (pc = "done" /\ call.fn = "DEC") => heap[out2] = heap[msg]

\* C2: a call of ENC or DEC whose key and data differ in length ends in
\* ValueError before any round runs: no working copy is made and nothing is
\* returned, whatever the two lengths, 0 included.
C2_LengthMismatchRaises ==
  (call.fn # "" /\ Len(heap[call.key]) # Len(heap[call.data])) =>
    /\ pc = "raised"
    /\ err = "ValueError"
    /\ call.buf = 0
    /\ Len(heap) = (IF call.ret = "out1" THEN 2 ELSE 3)
    /\ (call.ret = "out1" => out1 = 0)
    /\ out2 = 0

C2_Witness ==
  /\ pc = "raised"
  /\ err = "ValueError"
  /\ call.fn = "DEC"
  /\ Len(heap[call.key]) = 0
  /\ Len(heap[call.data]) = MaxLen

\* C3: GEN("") returns a key of length 0, and ENC and DEC given a key and
\* data of length 0 raise nothing and return a list of length 0.
C3_Degenerate ==
  /\ (pc = "have_key" /\ source = "GEN" /\ seed = << >>) => heap[key] = << >>
  /\ (EqualLengths /\ BlockLen = 0) =>
        /\ pc # "raised"
        /\ (pc = "first_done" => heap[out1] = << >>)

\* C4: for every block length n >= 1 a call is made with, multiples of 3, of
\* 5 and of 15 among them, and every round r in 0..5, the position mapping
\* reaches each position of 0..n-1 exactly once.
C4_PermutationBijective ==
  (EqualLengths /\ BlockLen >= 1) =>
    \A r \in 0..(rounds - 1) : Bijective(BlockLen, r)

\* C5: with a key of n >= 64 bits, the number of ciphertext bits that change
\* when one message bit is flipped, averaged over the flipped positions, lies
\* between 25% and 75% of n.
C5_Avalanche ==
  (pc = "reported" /\ Len(heap[key]) >= 64) =>
    LET n == Len(heap[key])
        total == Sum(diffusion_results)
    IN  /\ 100 * total >= 25 * n * n
        /\ 100 * total <= 75 * n * n

\* The key GEN has to return for a seed: bit j is bit 7 - j % 8 of byte
\* (j % 256) \div 8 of digest j \div 256, where digest 0 is the hash of the seed
\* and digest k >= 1 the hash of the seed followed by k in decimal.
ExpectedDigest(seed_str, k) ==
  IF k = 0 THEN sha256(Encode(seed_str).val) ELSE sha256(Encode(seed_str).val \o Str(k))

RECURSIVE ExpectedDigests(_, _)
ExpectedDigests(seed_str, nblocks) ==
  IF nblocks = 0 THEN << >>
  ELSE Append(ExpectedDigests(seed_str, nblocks - 1), ExpectedDigest(seed_str, nblocks - 1))

BlocksNeeded(key_len) == (key_len + 255) \div 256

ExpectedKey(seed_str) ==
  LET key_len == 4 * Len(seed_str)
      ds == ExpectedDigests(seed_str, BlocksNeeded(key_len))
  IN  [ p \in 1..key_len |->
          LET j == p - 1
          IN  (ds[(j \div 256) + 1][((j % 256) \div 8) + 1] \div Pow2(7 - (j % 8))) % 2 ]

C6_GenInvariant ==
  /\ pc = "GEN_loop" =>
        /\ gen.key_len = 4 * Len(seed)
        /\ Len(gen.key_bits) <= gen.key_len
        /\ Len(gen.key_bits) =
              (IF 256 * gen.counter < gen.key_len THEN 256 * gen.counter ELSE gen.key_len)
  /\ (pc = "have_key" /\ source = "GEN") =>
        /\ Len(heap[key]) = 4 * Len(seed)
        /\ \A p \in 1..Len(heap[key]) : heap[key][p] \in { 0, 1 }
        /\ gen.counter = BlocksNeeded(4 * Len(seed))
        /\ heap[key] = ExpectedKey(seed)

\* GEN terminates with a key: the call raises nothing, and every iteration
\* its loop still has to make brings the buffer closer to the target length.
C6_GenTerminates ==
  /\ (source = "GEN" /\ call.fn = "") => pc # "raised"
  /\ (pc = "GEN_loop" /\ Len(gen.key_bits) < gen.key_len) =>
        LET it == GenIteration(gen, seed)
        IN  /\ it.err = ""
            /\ Len(it.val.key_bits) > Len(gen.key_bits)

\* C6: for every seed, GEN terminates and returns exactly 4 * len(seed) bits;
\* the buffer never grows past the target during the loop, the loop uses
\* ceil(4 * len(seed) / 256) digests (digest 0 of the seed, digest k >= 1 of the
\* seed followed by k in decimal), and each digest byte gives its bits most
\* significant first.
C6_Gen == C6_GenTerminates /\ C6_GenInvariant

\* C7: ENC and DEC leave their arguments as they were, whether the call
\* returns or raises: no step changes the contents of the key, the message or
\* the first call's result (the second call's data), and what a call returns
\* is its working copy, an object that is neither of its arguments.
C7_Step ==
  /\ \A ref \in { key, msg, out1 } \ { 0 } : heap'[ref] = heap[ref]
  /\ (pc \in { "ENC_rounds", "DEC_rounds" } /\ pc' \in { "first_done", "done" }) =>
        /\ (IF call.ret = "out1" THEN out1' ELSE out2') = call.buf
        /\ call.buf \notin { call.key, call.data }

C7_ArgumentsUnchanged == [][C7_Step]_vars

C7_Witness ==
  /\ pc = "done"
  /\ call.fn = "DEC"
  /\ heap[out1] # heap[msg]
  /\ heap[out2] # heap[out1]

\* C8: for every block length n >= 1 and round r in 0..5 the position mapping
\* is a bijection on 0..n-1 exactly when gcd(mult, n) = 1; when n is a
\* multiple of 15 the multiplier is 5, gcd(5, n) = 5, two positions share a
\* new_pos, and ENC's permutation step loses a value: a block with one bit set
\* and the block of zeros come out the same.
C8_BijectiveIffCoprime ==
  (EqualLengths /\ BlockLen >= 1) =>
    LET n == BlockLen
    IN  \A r \in 0..(rounds - 1) :
          /\ Bijective(n, r) <=> (GCD(Mult(n), n) = 1)
          /\ (n % 15 = 0) =>
                /\ Mult(n) = 5
                /\ GCD(5, n) = 5
                /\ \E i, j \in 0..(n - 1) : i # j /\ NewPos(i, r, n) = NewPos(j, r, n)
                /\ \E i \in 0..(n - 1) : Permute(Unit(n, i), r) = Permute(Rep(0, n), r)

C8_Witness ==
  /\ pc = "ENC_rounds"
  /\ BlockLen = 15
  /\ call.r = rounds

\* C9: for every block length n >= 1 that is not a multiple of 15, DEC undoes
\* ENC and ENC undoes DEC: neither call raises, DEC(K, ENC(K, M)) = M and
\* ENC(K, DEC(K, M)) = M.
C9_InverseOffFifteen ==
  (EqualLengths /\ BlockLen >= 1 /\ BlockLen % 15 # 0) =>
    /\ pc # "raised"
    /\ pc = "done" => heap[out2] = heap[msg]

C9_Witness ==
  /\ pc = "done"
  /\ call.fn = "ENC"
  /\ BlockLen = MaxLen
  /\ heap[out1] # heap[msg]
  /\ heap[out2] = heap[msg]

\* Where rounds r..5 of ENC take the bit at position i of a block of n.
RECURSIVE Image(_, _, _)
Image(i, r, n) == IF r >= rounds THEN i ELSE Image(NewPos(i, r, n), r + 1, n)

\* C10: for every block length n >= 1 that is not a multiple of 15, every key
\* and every message, flipping one message bit flips exactly one ciphertext
\* bit, at a position that the block length and the flipped position fix,
\* whatever the key and the other message bits.
C10_OneBitToOneBit ==
  (pc = "diffusion" /\ Len(heap[key]) % 15 # 0) =>
    LET n == Len(heap[key])
        bit_pos == Len(diffusion_results) - 1
        C_modified == ENC(heap[key], FlipBit(heap[msg], bit_pos)).val
    IN  /\ diffusion_results[bit_pos + 1] = 1
        /\ { p \in 0..(n - 1) : C_modified[p + 1] # heap[out1][p + 1] }
             = { Image(bit_pos, 0, n) }

C10_Witness ==
  /\ pc = "diffusion"
  /\ source = "GEN"
  /\ Len(heap[key]) >= 64
  /\ Len(diffusion_results) = Len(heap[key])
=============================================================================
